---------------------------- MODULE Spec2Model ----------------------------
(***************************************************************************)
(* State-machine model of the event application's client:                  *)
(*   - the account creation / verification form (CreateAccountForm),       *)
(*   - the event authoring form (CreateEventForm),                         *)
(*   - the network requests they leave in flight and the router path.      *)
(* Text is modelled as a sequence of one-character strings so that trim,   *)
(* split, toLowerCase, includes and the regular expressions are computed   *)
(* character by character.                                                 *)
(***************************************************************************)
EXTENDS Integers, Sequences, FiniteSets, TLC

VARIABLES
    \* ---- router
    path,                 \* current location, a tuple of path segments
    \* ---- CreateAccountForm state (useState, CreateAccountPage.tsx 46-57)
    email, password, confirm, error, submitting, verificationSent,
    sendingVerification, code, verifying, emailErr, passwordErr,
    alerted,              \* alert('Account verified.') has been shown
    \* ---- CreateEventForm state (useState, part_001 25-41)
    fields,               \* title, description, date, location
    categories, evError, isPrivate, invitedUsers, isPopupOpen,
    lastChange,           \* history: last change event of each category box
    \* ---- environment
    net,                  \* requests in flight, per submitting control
    events,               \* the events store's in-memory collection (ids)
    created,              \* ids the server has given to created events
    \* ---- views: session, event detail page, route guard, navbar
    authUser,             \* useAuth().user, the session's user (NoUser: none)
    deleting,             \* ids whose deleteEvent call is outstanding
    lastConfirm,          \* history: the latest confirm() dialog and its answer
    guard,                \* what RequireAuth returned at its latest render
    lastLink,             \* history: navbar link followed last, if still in effect
    description,          \* event.description handed to linkify
    rendered,             \* the fragments linkify returned for it
    registered            \* history: body of the registration that succeeded

acctVars == <<email, password, confirm, error, submitting, verificationSent,
              sendingVerification, code, verifying, emailErr, passwordErr,
              alerted, registered>>
formVars == <<fields, categories, evError, isPrivate, invitedUsers,
              isPopupOpen, lastChange>>
viewVars == <<authUser, deleting, lastConfirm, guard, lastLink, description,
              rendered>>
vars == <<path, acctVars, formVars, net, events, created, viewVars>>

NULL == "<null>"

\* records standing for "none" where the value is otherwise a record
NoUser == [id |-> "<none>", role |-> "<none>"]
NoConfirm == [id |-> "<none>", answer |-> FALSE]
NotRendered == [view |-> "<none>", to |-> <<>>, from |-> <<>>]
NoRegistration == [accountID |-> <<>>, accountType |-> "<none>",
                   email |-> <<>>, password |-> <<>>]

(***************************************************************************)
(* Characters and strings                                                  *)
(***************************************************************************)
UpperSeq == <<"A","B","C","D","E","F","G","H","I","J","K","L","M",
              "N","O","P","Q","R","S","T","U","V","W","X","Y","Z">>
LowerSeq == <<"a","b","c","d","e","f","g","h","i","j","k","l","m",
              "n","o","p","q","r","s","t","u","v","w","x","y","z">>
DigitSeq == <<"0","1","2","3","4","5","6","7","8","9">>

Range(s) == {s[i] : i \in 1..Len(s)}

UpperChars == Range(UpperSeq)
LowerChars == Range(LowerSeq)
DigitChars == Range(DigitSeq)
Whitespace == {" ", "\t", "\n"}

\* String.prototype.toLowerCase on one character
LowerChar(c) ==
    IF c \in UpperChars
    THEN LowerSeq[CHOOSE i \in 1..Len(UpperSeq) : UpperSeq[i] = c]
    ELSE c

RECURSIVE toLowerCase(_)
toLowerCase(s) ==
    IF s = <<>> THEN <<>> ELSE <<LowerChar(Head(s))>> \o toLowerCase(Tail(s))

RECURSIVE trimStart(_)
trimStart(s) ==
    IF s # <<>> /\ Head(s) \in Whitespace THEN trimStart(Tail(s)) ELSE s

RECURSIVE trimEnd(_)
trimEnd(s) ==
    IF s # <<>> /\ s[Len(s)] \in Whitespace
    THEN trimEnd(SubSeq(s, 1, Len(s) - 1))
    ELSE s

\* String.prototype.trim
trim(s) == trimEnd(trimStart(s))

\* String.prototype.split(sep) for a one-character separator: the parts
RECURSIVE split(_, _)
split(s, sep) ==
    IF \A i \in 1..Len(s) : s[i] # sep
    THEN <<s>>
    ELSE LET k == CHOOSE i \in 1..Len(s) :
                      s[i] = sep /\ \A j \in 1..(i - 1) : s[j] # sep
         IN  <<SubSeq(s, 1, k - 1)>> \o split(SubSeq(s, k + 1, Len(s)), sep)

\* String.prototype.includes
includes(s, sub) ==
    \E i \in 1..(Len(s) - Len(sub) + 1) : SubSeq(s, i, i + Len(sub) - 1) = sub

\* String.prototype.startsWith
startsWith(s, pre) == Len(s) >= Len(pre) /\ SubSeq(s, 1, Len(pre)) = pre


(***************************************************************************)
(* Text the user can type into the account form                            *)
(***************************************************************************)
AT  == <<"@">>
DOT == <<".">>
SP  == <<" ">>
w_a     == <<"a">>
w_bears == <<"b","e","a","r","s">>
w_unco  == <<"u","n","c","o">>
w_edu   == <<"e","d","u">>
w_gmail == <<"g","m","a","i","l">>
w_com   == <<"c","o","m">>
w_UNCO  == <<"U","N","C","O">>
w_EDU   == <<"E","D","U">>
w_BEARS == <<"B","E","A","R","S">>

d_unco  == w_unco \o DOT \o w_edu
d_bears == w_bears \o DOT \o w_unco \o DOT \o w_edu

\* const ALLOWED_DOMAINS = ['bears.unco.edu', 'unco.edu']
ALLOWED_DOMAINS == <<d_bears, d_unco>>

EmailInputs ==
    { <<>>,                                          \* ""
      SP \o SP,                                      \* "  "
      w_a \o AT \o d_bears,                          \* a@bears.unco.edu
      w_a \o AT \o d_unco,                           \* a@unco.edu
      w_bears \o AT \o d_unco,                       \* bears@unco.edu
      w_a \o AT \o w_UNCO \o DOT \o w_EDU,           \* a@UNCO.EDU
      w_a \o AT \o w_BEARS \o DOT \o w_UNCO \o DOT \o w_EDU, \* a@BEARS.UNCO.EDU
      SP \o w_a \o AT \o d_unco \o SP,               \* " a@unco.edu "
      w_a \o AT \o w_gmail \o DOT \o w_com,          \* a@gmail.com
      w_a \o AT \o w_unco,                           \* a@unco
      w_a \o AT \o w_a \o AT \o d_unco,              \* a@a@unco.edu
      w_a \o SP \o w_a \o AT \o d_unco,              \* "a a@unco.edu"
      AT \o d_unco,                                  \* @unco.edu
      w_a \o AT \o DOT \o w_edu }                    \* a@.edu

PasswordInputs ==
    { <<>>,
      <<"A","b","c","d","1","2","3","!">>,           \* all five rules
      <<"A","b","c","d"," ","1","2","3">>,           \* all five, symbol is " "
      <<"A","b","c","1","2","3","!">>,               \* 7 characters
      <<"a","b","c","d","1","2","3","!">>,           \* no uppercase
      <<"A","B","C","D","1","2","3","!">>,           \* no lowercase
      <<"A","b","c","d","e","f","g","!">>,           \* no digit
      <<"A","b","c","d","1","2","3","4">> }          \* no symbol

\* the code input has maxLength={6}
CodeInputs ==
    { <<>>,
      <<"1","2","3","4","5","6">>,
      <<"6","5","4","3","2","1">>,
      <<"1","2","3","4","5">>,
      <<" ","1","2","3","4","5">> }

(***************************************************************************)
(* CreateAccountForm: validation                                           *)
(***************************************************************************)
MinPasswordLength == 8
CodeLength == 6

\* /^[^@\s]+@[^@\s]+\.[^@\s]+$/.test(s)
EmailRegexTest(s) ==
    LET plain(lo, hi) == \A k \in lo..hi : s[k] \notin ({"@"} \cup Whitespace)
    IN  \E i \in 1..Len(s) : \E j \in 1..Len(s) :
            /\ s[i] = "@" /\ s[j] = "."
            /\ 2 <= i /\ i + 2 <= j /\ j + 1 <= Len(s)
            /\ plain(1, i - 1) /\ plain(i + 1, j - 1) /\ plain(j + 1, Len(s))

pwRules(p) ==
    [ length  |-> Len(p) >= MinPasswordLength,
      upper   |-> \E i \in 1..Len(p) : p[i] \in UpperChars,
      lower   |-> \E i \in 1..Len(p) : p[i] \in LowerChars,
      digit   |-> \E i \in 1..Len(p) : p[i] \in DigitChars,
      special |-> \E i \in 1..Len(p) :
                      p[i] \notin (UpperChars \cup LowerChars \cup DigitChars) ]

\* Object.values(pwRules).every(Boolean)
isPwValid(p) == \A k \in DOMAIN pwRules(p) : pwRules(p)[k]

\* trimmed.split('@')[1]?.toLowerCase(), for a string the pattern accepted
validate_domain(trimmed) == toLowerCase(split(trimmed, "@")[2])

RawDomain(trimmed) == split(trimmed, "@")[2]

\* variant: the domain is compared without toLowerCase()
validate_CaseSensitive(e, p, c) ==
    LET trimmed == trim(e)
        eErr == IF trimmed = <<>> THEN "Email is required."
                ELSE IF ~EmailRegexTest(trimmed) THEN "Enter a valid email."
                ELSE IF RawDomain(trimmed) \notin Range(ALLOWED_DOMAINS)
                     THEN "Use your official UNCO email."
                     ELSE NULL
        pErr == IF ~isPwValid(p) THEN "Password does not meet requirements."
                ELSE NULL
    IN  [ err |-> IF eErr # NULL \/ pErr # NULL \/ c # p
                  THEN "Fix errors." ELSE NULL,
          emailErr |-> eErr, passwordErr |-> pErr ]

\* validate(): the message it returns and the field errors it sets
validate(e, p, c) ==
    LET trimmed == trim(e)
        eErr == IF trimmed = <<>> THEN "Email is required."
                ELSE IF ~EmailRegexTest(trimmed) THEN "Enter a valid email."
                ELSE IF validate_domain(trimmed) \notin Range(ALLOWED_DOMAINS)
                     THEN "Use your official UNCO email."
                     ELSE NULL
        pErr == IF ~isPwValid(p) THEN "Password does not meet requirements."
                ELSE NULL
    IN  [ err |-> IF eErr # NULL \/ pErr # NULL \/ c # p
                  THEN "Fix errors." ELSE NULL,
          emailErr |-> eErr, passwordErr |-> pErr ]

\* disabled={!isPwValid || !!emailErr || confirm !== password ||
\*           !email.trim() || submitting}
SubmitDisabled ==
    \/ ~isPwValid(password) \/ emailErr # NULL \/ confirm # password
    \/ trim(email) = <<>> \/ submitting

\* disabled={verifying || code.trim().length !== 6}
VerifyDisabled == verifying \/ Len(trim(code)) # CodeLength

\* disabled={sendingVerification}
ResendDisabled == sendingVerification

(***************************************************************************)
(* The requests the account form sends, and the server's answers           *)
(***************************************************************************)
\* body of POST /register as sendVerification builds it
registerBody(em, pw) ==
    [ accountID   |-> split(em, "@")[1],
      accountType |-> IF includes(em, w_bears) THEN "Student" ELSE "Faculty",
      email       |-> em,
      password    |-> pw ]

\* body of POST /verify as verifyAccount builds it
verifyBody(em, cd) == [ accountID |-> split(em, "@")[1], code |-> cd ]

\* the "detail" member of an error body: absent, a string (s), or a list of
\* n error objects
NoDetail == [t |-> "undefined", s |-> "", n |-> 0]
DetailValues ==
    { NoDetail,
      [t |-> "string", s |-> "", n |-> 0],
      [t |-> "string", s |-> "Invalid or expired code.", n |-> 0],
      [t |-> "array",  s |-> "", n |-> 0],
      [t |-> "array",  s |-> "", n |-> 1] }

\* Array.prototype.toString of a list of n plain objects
RECURSIVE joinObjects(_)
joinObjects(n) ==
    IF n = 0 THEN ""
    ELSE IF n = 1 THEN "[object Object]"
    ELSE "[object Object]," \o joinObjects(n - 1)

\* JavaScript truthiness and String() of a detail value
Truthy(d) == d.t = "array" \/ (d.t = "string" /\ d.s # "")
StringOf(d) ==
    IF d.t = "string" THEN d.s
    ELSE IF d.t = "array" THEN joinObjects(d.n) ELSE "undefined"

\* answers of fetch: a 2xx response, a non-OK response whose body may or may
\* not parse as JSON, or a rejected fetch (no response at all)
Responses ==
    { [kind |-> "ok", parses |-> TRUE, detail |-> NoDetail],
      [kind |-> "network", parses |-> FALSE, detail |-> NoDetail],
      [kind |-> "http", parses |-> FALSE, detail |-> NoDetail] }
    \cup { [kind |-> "http", parses |-> TRUE, detail |-> d] : d \in DetailValues }

FetchRejected == "Failed to fetch"

\* message of the Error sendVerification throws on this answer (NULL: none)
sendVerification_throws(resp) ==
    IF resp.kind = "ok" THEN NULL
    ELSE IF resp.kind = "network" THEN FetchRejected
    ELSE "Failed to register user."

\* variant: the error body is never read
verifyAccount_IgnoresDetail(resp) ==
    IF resp.kind = "ok" THEN NULL
    ELSE IF resp.kind = "network" THEN FetchRejected
    ELSE "Verification failed."

\* message of the Error verifyAccount throws on this answer (NULL: none)
verifyAccount_throws(resp) ==
    IF resp.kind = "ok" THEN NULL
    ELSE IF resp.kind = "network" THEN FetchRejected
    ELSE LET err == IF resp.parses THEN resp.detail ELSE NoDetail  \* .catch(() => ({}))
         IN  IF Truthy(err) THEN StringOf(err) ELSE "Verification failed."

\* a || b on strings
OrElse(a, b) == IF a = "" THEN b ELSE a

Controls == {"Submit", "Resend", "Verify", "CreateEvent"}

Send(control, body) == [net EXCEPT ![control] = Append(@, body)]
Drop(control, i) ==
    [net EXCEPT ![control] =
        SubSeq(@, 1, i - 1) \o SubSeq(@, i + 1, Len(@))]


(***************************************************************************)
(* Router paths (App route table)                                          *)
(***************************************************************************)
LandingPath == <<>>                      \* "/"
ManagePath  == <<"manage">>              \* "/manage" -> CreateAccountPage
CreatePath  == <<"create">>              \* "/create" -> CreateEventPage
EventPath(id) == <<"events", id>>        \* "/events/:id" -> EventDetailPage

(***************************************************************************)
(* CreateAccountForm: handlers                                             *)
(***************************************************************************)
\* onChange of the email input (rendered while !verificationSent)
setEmail(v) ==
    /\ path = ManagePath /\ ~verificationSent
    /\ email' = v /\ emailErr' = NULL
    /\ UNCHANGED <<password, confirm, error, submitting, verificationSent,
                   sendingVerification, code, verifying, passwordErr, alerted>>
    /\ UNCHANGED <<path, registered, formVars, net, events, created, viewVars>>

\* onChange of the password input
setPassword(v) ==
    /\ path = ManagePath /\ ~verificationSent
    /\ password' = v /\ passwordErr' = NULL
    /\ UNCHANGED <<email, confirm, error, submitting, verificationSent,
                   sendingVerification, code, verifying, emailErr, alerted>>
    /\ UNCHANGED <<path, registered, formVars, net, events, created, viewVars>>

\* onChange of the confirmation input
setConfirm(v) ==
    /\ path = ManagePath /\ ~verificationSent
    /\ confirm' = v
    /\ UNCHANGED <<email, password, error, submitting, verificationSent,
                   sendingVerification, code, verifying, emailErr, passwordErr,
                   alerted>>
    /\ UNCHANGED <<path, registered, formVars, net, events, created, viewVars>>

\* onSubmit, reached through the submit button (a disabled default button
\* blocks both the click and implicit submission)
onSubmit ==
    /\ path = ManagePath /\ ~verificationSent /\ ~SubmitDisabled
    /\ LET r == validate(email, password, confirm)
       IN  /\ emailErr' = r.emailErr
           /\ passwordErr' = r.passwordErr
           /\ IF r.err # NULL
              THEN /\ error' = r.err
                   /\ UNCHANGED <<submitting, net>>
              ELSE /\ error' = NULL
                   /\ submitting' = TRUE
                   /\ net' = Send("Submit", registerBody(trim(email), password))
    /\ UNCHANGED <<email, password, confirm, verificationSent,
                   sendingVerification, code, verifying, alerted>>
    /\ UNCHANGED <<path, registered, formVars, events, created, viewVars>>

\* variant: setVerificationSent(true) moved into the finally block
onSubmit_settled_SentInFinally(i, resp) ==
    /\ i \in 1..Len(net["Submit"])
    /\ net' = Drop("Submit", i)
    /\ IF sendVerification_throws(resp) = NULL
       THEN UNCHANGED error
       ELSE error' = "Could not send verification email."
    /\ verificationSent' = TRUE
    /\ submitting' = FALSE
    /\ UNCHANGED <<email, password, confirm, sendingVerification, code,
                   verifying, emailErr, passwordErr, alerted>>
    /\ UNCHANGED <<path, formVars, events, created, viewVars>>

\* onSubmit after its await: try / catch / finally (the history variable
\* registered is set by the specification that takes this step)
onSubmit_settled(i, resp) ==
    /\ i \in 1..Len(net["Submit"])
    /\ net' = Drop("Submit", i)
    /\ IF sendVerification_throws(resp) = NULL
       THEN verificationSent' = TRUE /\ UNCHANGED error
       ELSE error' = "Could not send verification email."
            /\ UNCHANGED verificationSent
    /\ submitting' = FALSE
    /\ UNCHANGED <<email, password, confirm, sendingVerification, code,
                   verifying, emailErr, passwordErr, alerted>>
    /\ UNCHANGED <<path, formVars, events, created, viewVars>>

\* onResend (button rendered while verificationSent)
onResend ==
    /\ path = ManagePath /\ verificationSent /\ ~ResendDisabled
    /\ error' = NULL
    /\ sendingVerification' = TRUE
    /\ net' = Send("Resend", registerBody(trim(email), password))
    /\ UNCHANGED <<email, password, confirm, submitting, verificationSent,
                   code, verifying, emailErr, passwordErr, alerted>>
    /\ UNCHANGED <<path, registered, formVars, events, created, viewVars>>

onResend_settled(i, resp) ==
    /\ i \in 1..Len(net["Resend"])
    /\ net' = Drop("Resend", i)
    /\ IF sendVerification_throws(resp) = NULL
       THEN verificationSent' = TRUE /\ UNCHANGED error
       ELSE error' = "Could not send verification email."
            /\ UNCHANGED verificationSent
    /\ sendingVerification' = FALSE
    /\ UNCHANGED <<email, password, confirm, submitting, code, verifying,
                   emailErr, passwordErr, alerted>>
    /\ UNCHANGED <<path, registered, formVars, events, created, viewVars>>

\* onChange of the code input
setCode(v) ==
    /\ path = ManagePath /\ verificationSent
    /\ code' = v
    /\ UNCHANGED <<email, password, confirm, error, submitting,
                   verificationSent, sendingVerification, verifying, emailErr,
                   passwordErr, alerted>>
    /\ UNCHANGED <<path, registered, formVars, net, events, created, viewVars>>

\* onClick of Verify, up to its await
onVerify ==
    /\ path = ManagePath /\ verificationSent /\ ~VerifyDisabled
    /\ verifying' = TRUE
    /\ error' = NULL
    /\ net' = Send("Verify", verifyBody(trim(email), trim(code)))
    /\ UNCHANGED <<email, password, confirm, submitting, verificationSent,
                   sendingVerification, code, emailErr, passwordErr, alerted>>
    /\ UNCHANGED <<path, registered, formVars, events, created, viewVars>>

\* onClick of Verify after its await: alert / catch / finally
onVerify_settled(i, resp) ==
    /\ i \in 1..Len(net["Verify"])
    /\ net' = Drop("Verify", i)
    /\ IF verifyAccount_throws(resp) = NULL
       THEN alerted' = TRUE /\ UNCHANGED error
       ELSE error' = OrElse(verifyAccount_throws(resp), "Verification failed.")
            /\ UNCHANGED alerted
    /\ verifying' = FALSE
    /\ UNCHANGED <<email, password, confirm, submitting, verificationSent,
                   sendingVerification, code, emailErr, passwordErr>>
    /\ UNCHANGED <<path, registered, formVars, events, created, viewVars>>


(***************************************************************************)
(* CreateEventForm                                                         *)
(***************************************************************************)
AVAILABLE_CATEGORIES ==
    <<"Music", "Tech", "Art", "Sports", "Food", "Community", "Other">>

\* bounds of the event form's model
NumCategoryBoxes == 2     \* category boxes the user clicks (the first ones)
MaxOutstanding == 2       \* POST /events requests in flight at once

CategoryBoxes == {AVAILABLE_CATEGORIES[i] : i \in 1..NumCategoryBoxes}

FieldNames == {"title", "description", "date", "location"}
TextInputs == {"", "Fall Mixer"}

\* users the invite search offers; two of them carry the same id
InviteCandidates ==
    { [id |-> "u1", name |-> "Ann"],
      [id |-> "u2", name |-> "Bob"],
      [id |-> "u1", name |-> "Ann B."] }

\* identifiers POST /events may answer with (JSON text; "undefined": none)
ResponseIds == {"undefined", "0", "7"}
\* if (newId): undefined and the number 0 are falsy
TruthyId(id) == id \notin {"undefined", "0"}

\* events the store holds from its initial fetch
StoreAtLoad == {"3", "4"}

\* variant: the unchecked branch leaves the list as it is
categoriesUpdate_KeepsOnUncheck(prev, value, checked) ==
    IF checked THEN Append(prev, value) ELSE prev

\* setCategories updater of handleCategoryChange
categoriesUpdate(prev, value, checked) ==
    IF checked
    THEN Append(prev, value)
    ELSE SelectSeq(prev, LAMBDA cat : cat # value)

\* variant: no duplicate check
invitedUpdate_NoDedup(prev, user) == Append(prev, user)

\* setInvitedUsers updater of handleInviteUser
invitedUpdate(prev, user) ==
    IF \E i \in 1..Len(prev) : prev[i].id = user.id
    THEN prev
    ELSE Append(prev, user)

\* variant: the private-event rule is missing
handleSubmit_validation_NoInviteeRule(f, cats, priv, invited) ==
    IF f["title"] = "" \/ f["description"] = "" \/ f["date"] = ""
       \/ f["location"] = "" \/ Len(cats) = 0
    THEN "Please fill out all required fields, including at least one Category."
    ELSE NULL

\* handleSubmit's validation: the message it sets, NULL when it passes
handleSubmit_validation(f, cats, priv, invited) ==
    IF f["title"] = "" \/ f["description"] = "" \/ f["date"] = ""
       \/ f["location"] = "" \/ Len(cats) = 0
    THEN "Please fill out all required fields, including at least one Category."
    ELSE IF priv /\ Len(invited) = 0
    THEN "A private event must have at least one invited user."
    ELSE NULL

\* the payload handleSubmit posts (rsvpRequired, capacity, imageUrl and price
\* are passed through from inputs no handler reads back)
payload ==
    [ title          |-> fields["title"],
      description    |-> fields["description"],
      startDate      |-> fields["date"],
      location       |-> fields["location"],
      categories     |-> categories,
      isPrivate      |-> isPrivate,
      invitedUserIds |-> [i \in 1..Len(invitedUsers) |-> invitedUsers[i].id] ]

\* useState initial values: the state of a freshly mounted form
FormMounts ==
    /\ fields' = [f \in FieldNames |-> ""]
    /\ categories' = <<>>
    /\ evError' = NULL
    /\ isPrivate' = FALSE
    /\ invitedUsers' = <<>>
    /\ isPopupOpen' = FALSE
    /\ lastChange' = [c \in CategoryBoxes |-> "none"]

\* onChange of the title / description / date / location inputs
setField(f, v) ==
    /\ path = CreatePath
    /\ fields' = [fields EXCEPT ![f] = v]
    /\ UNCHANGED <<categories, evError, isPrivate, invitedUsers, isPopupOpen,
                   lastChange>>
    /\ UNCHANGED <<path, acctVars, net, events, created, viewVars>>

\* a click on a category box: the box is rendered checked iff its category
\* is in the list, so the change event carries the opposite
handleCategoryChange(value) ==
    /\ path = CreatePath
    /\ LET checked == value \notin Range(categories)
       IN  /\ categories' = categoriesUpdate(categories, value, checked)
           /\ lastChange' = [lastChange EXCEPT
                                ![value] = IF checked THEN "checked"
                                                      ELSE "unchecked"]
    /\ UNCHANGED <<fields, evError, isPrivate, invitedUsers, isPopupOpen>>
    /\ UNCHANGED <<path, acctVars, net, events, created, viewVars>>

\* a click on the Private box, rendered with checked={isPrivate}
handleTogglePrivate ==
    /\ path = CreatePath
    /\ LET checked == ~isPrivate
       IN  /\ isPrivate' = checked
           /\ invitedUsers' = IF ~checked THEN <<>> ELSE invitedUsers
    /\ UNCHANGED <<fields, categories, evError, isPopupOpen, lastChange>>
    /\ UNCHANGED <<path, acctVars, net, events, created, viewVars>>

\* "Invite Users" / "Click to view/add", rendered while isPrivate
openPopup ==
    /\ path = CreatePath /\ isPrivate /\ ~isPopupOpen
    /\ isPopupOpen' = TRUE
    /\ UNCHANGED <<fields, categories, evError, isPrivate, invitedUsers,
                   lastChange>>
    /\ UNCHANGED <<path, acctVars, net, events, created, viewVars>>

\* Popup onClose
closePopup ==
    /\ path = CreatePath /\ isPopupOpen
    /\ isPopupOpen' = FALSE
    /\ UNCHANGED <<fields, categories, evError, isPrivate, invitedUsers,
                   lastChange>>
    /\ UNCHANGED <<path, acctVars, net, events, created, viewVars>>

\* InviteUserSearch onInvite, rendered while isPopupOpen
handleInviteUser(user) ==
    /\ path = CreatePath /\ isPopupOpen
    /\ invitedUsers' = invitedUpdate(invitedUsers, user)
    /\ UNCHANGED <<fields, categories, evError, isPrivate, isPopupOpen,
                   lastChange>>
    /\ UNCHANGED <<path, acctVars, net, events, created, viewVars>>

\* handleSubmit up to its await; the Create Event button has no disabled
\* attribute.  The request in flight is kept as its request line: no answer
\* of the server modelled here depends on the body, which is payload
handleSubmit ==
    /\ path = CreatePath
    /\ Len(net["CreateEvent"]) < MaxOutstanding
    /\ LET msg == handleSubmit_validation(fields, categories, isPrivate,
                                          invitedUsers)
       IN  IF msg # NULL
           THEN evError' = msg /\ UNCHANGED net
           ELSE net' = Send("CreateEvent", "POST /events") /\ UNCHANGED evError
    /\ UNCHANGED <<fields, categories, isPrivate, invitedUsers, isPopupOpen,
                   lastChange>>
    /\ UNCHANGED <<path, acctVars, events, created, viewVars>>

\* handleSubmit after its await, 2xx answer carrying newEvent.id = id:
\* setError(null), then navigate; leaving /create unmounts the form
handleSubmit_created(i, id) ==
    /\ i \in 1..Len(net["CreateEvent"])
    /\ id \in ResponseIds
    /\ id = "undefined" \/ id \notin (created \cup events)
    /\ net' = Drop("CreateEvent", i)
    /\ created' = IF id = "undefined" THEN created ELSE created \cup {id}
    /\ path' = IF TruthyId(id) THEN EventPath(id) ELSE LandingPath
    /\ FormMounts
    /\ lastLink' = "none"
    /\ UNCHANGED <<acctVars, events, authUser, deleting, lastConfirm, guard,
                   description, rendered>>

\* handleSubmit after its await, non-OK answer or rejected fetch: the catch
\* block (a setState on an unmounted form changes nothing)
handleSubmit_failed(i) ==
    /\ i \in 1..Len(net["CreateEvent"])
    /\ net' = Drop("CreateEvent", i)
    /\ evError' = IF path = CreatePath
                  THEN "Failed to create event. Please try again."
                  ELSE evError
    /\ UNCHANGED <<fields, categories, isPrivate, invitedUsers, isPopupOpen,
                   lastChange>>
    /\ UNCHANGED <<path, acctVars, events, created, viewVars>>

(***************************************************************************)
(* App: the route table and its matching                                   *)
(***************************************************************************)
\* <Routes> children in declaration order; a path is its list of segments
RouteTable == <<
    [path |-> <<>>,                       element |-> "DefaultPage"],
    [path |-> <<"home">>,                 element |-> "HomePage"],
    [path |-> <<"create">>,               element |-> "CreateEventPage"],
    [path |-> <<"manage">>,               element |-> "CreateAccountPage"],
    [path |-> <<"events", ":id">>,        element |-> "EventDetailPage"],
    [path |-> <<"events", ":id", "edit">>, element |-> "EditEventPage"],
    [path |-> <<"help">>,                 element |-> "Help"],
    [path |-> <<"calendar">>,             element |-> "CalendarPage"],
    [path |-> <<"profile">>,              element |-> "MyProfile"],
    [path |-> <<"*">>,                    element |-> "Navigate"],
    [path |-> <<"login">>,                element |-> "SignInPage"] >>

\* does one pattern segment accept one location segment
segmentMatches(pat, seg) == IF pat = ":id" THEN seg # "" ELSE pat = seg

\* matchPath: the whole location against one route pattern; a trailing "*"
\* takes the rest of the location
matchPath(pattern, location) ==
    IF Len(pattern) > 0 /\ pattern[Len(pattern)] = "*"
    THEN /\ Len(location) >= Len(pattern) - 1
         /\ \A k \in 1..(Len(pattern) - 1) :
                segmentMatches(pattern[k], location[k])
    ELSE /\ Len(location) = Len(pattern)
         /\ \A k \in 1..Len(pattern) : segmentMatches(pattern[k], location[k])

\* the router's ranking of a route: one point a segment, ten for a static
\* segment, three for a parameter, a penalty of two for a splat
RECURSIVE computeScore(_)
computeScore(pattern) ==
    IF pattern = <<>> THEN 0
    ELSE computeScore(Tail(pattern)) +
         (IF Head(pattern) = "*" THEN 1 - 2
          ELSE IF Head(pattern) = ":id" THEN 1 + 3 ELSE 1 + 10)

\* variant: the first route declared that matches wins
matchRoutes_FirstDeclared(location) ==
    CHOOSE i \in 1..Len(RouteTable) :
        /\ matchPath(RouteTable[i].path, location)
        /\ \A j \in 1..(i - 1) : ~matchPath(RouteTable[j].path, location)

\* matchRoutes: of the routes that match, the best ranked; among equals the
\* one declared first
matchRoutes(location) ==
    CHOOSE i \in 1..Len(RouteTable) :
        /\ matchPath(RouteTable[i].path, location)
        /\ \A j \in 1..Len(RouteTable) :
               matchPath(RouteTable[j].path, location) =>
                   \/ computeScore(RouteTable[i].path)
                          > computeScore(RouteTable[j].path)
                   \/ /\ computeScore(RouteTable[i].path)
                             = computeScore(RouteTable[j].path)
                      /\ i <= j

\* the element <Routes> renders at a location
ElementAt(location) == RouteTable[matchRoutes(location)].element

\* locations the history can hold: every route of the table, event ids in
\* and out of the store, and paths the table does not name
LocationInputs ==
    {<<>>, <<"home">>, <<"create">>, <<"manage">>, <<"help">>,
     <<"calendar">>, <<"profile">>, <<"login">>,
     <<"events", "3">>, <<"events", "4">>, <<"events", "9">>,
     <<"events", "3", "edit">>,
     <<"events">>, <<"nope">>, <<"login", "x">>,
     <<"events", "3", "edit", "x">>}

(***************************************************************************)
(* Navbar and navigation                                                   *)
(***************************************************************************)
\* the NavLinks of the navbar: target and location state
NavLinks ==
    {[name |-> "Logo",     to |-> <<"events">>,   freshSignup |-> FALSE],
     [name |-> "Events",   to |-> <<"events">>,   freshSignup |-> FALSE],
     [name |-> "Calendar", to |-> <<"calendar">>, freshSignup |-> FALSE],
     [name |-> "SignUp",   to |-> <<"manage">>,   freshSignup |-> TRUE],
     [name |-> "Create",   to |-> <<"create">>,   freshSignup |-> FALSE],
     [name |-> "Help",     to |-> <<"help">>,     freshSignup |-> FALSE],
     [name |-> "Profile",  to |-> <<"profile">>,  freshSignup |-> FALSE]}

SignUpLink == CHOOSE l \in NavLinks : l.name = "SignUp"

\* NavLink isActive (end is not set): the link's target is the location or
\* a prefix of it at a segment boundary
isActive(to, location) ==
    Len(location) >= Len(to) /\ SubSeq(location, 1, Len(to)) = to

\* className of a navbar link: the logo has a fixed class, the others get
\* linkActive when isActive
Highlighted(l, location) == l.name # "Logo" /\ isActive(l.to, location)

\* a page component keeps its state across a navigation when the same route
\* element is rendered before and after
StaysMounted(page, from, to) == ElementAt(from) = page /\ ElementAt(to) = page

\* CreateAccountForm useState initial values
AcctMounts ==
    /\ email' = <<>> /\ password' = <<>> /\ confirm' = <<>>
    /\ error' = NULL /\ submitting' = FALSE /\ verificationSent' = FALSE
    /\ sendingVerification' = FALSE /\ code' = <<>> /\ verifying' = FALSE
    /\ emailErr' = NULL /\ passwordErr' = NULL /\ alerted' = FALSE

\* CreateAccountForm useEffect on [location.state]: it runs when the form
\* is mounted and the location state is a new object
freshSignupEffect(freshSignup) ==
    /\ IF freshSignup
       THEN email' = <<>> /\ password' = <<>> /\ confirm' = <<>>
       ELSE UNCHANGED <<email, password, confirm>>
    /\ UNCHANGED <<error, submitting, verificationSent, sendingVerification,
                   code, verifying, emailErr, passwordErr, alerted>>

\* a client-side navigation to a location with a location state: the route
\* elements that change are unmounted and mounted afresh
navigate(to, freshSignup, link) ==
    /\ path' = to
    /\ lastLink' = link
    /\ IF StaysMounted("CreateAccountPage", path, to)
       THEN freshSignupEffect(freshSignup)
       ELSE AcctMounts
    /\ IF StaysMounted("CreateEventPage", path, to)
       THEN UNCHANGED formVars
       ELSE FormMounts
    /\ UNCHANGED <<registered, net, created>>

\* a click on a navbar link
followLink(l) ==
    /\ navigate(l.to, l.freshSignup, l.name)
    /\ UNCHANGED <<events, authUser, deleting, lastConfirm, guard,
                   description, rendered>>

\* the history moves to another entry (back, forward, or a link outside
\* the navbar); the entry carries no location state
popstate(location) ==
    /\ location # path
    /\ navigate(location, FALSE, "none")
    /\ UNCHANGED <<events, authUser, deleting, lastConfirm, guard,
                   description, rendered>>

\* <Navigate to="/" replace /> of the wildcard route, run after it renders
Navigate_replace ==
    /\ ElementAt(path) = "Navigate"
    /\ navigate(LandingPath, FALSE, lastLink)
    /\ UNCHANGED <<events, authUser, deleting, lastConfirm, guard,
                   description, rendered>>

(***************************************************************************)
(* Auth session holder and events store, as the views use them             *)
(***************************************************************************)
\* users that can sign in
Users ==
    {[id |-> "u1", role |-> "Student"],
     [id |-> "u2", role |-> "Student"],
     [id |-> "u9", role |-> "Faculty"]}

\* login(User): the session holder keeps the user
login(u) ==
    /\ authUser = NoUser
    /\ authUser' = u
    /\ UNCHANGED <<path, acctVars, formVars, net, events, created, deleting,
                   lastConfirm, guard, lastLink, description, rendered>>

\* logout(): the session holder forgets the user
logout ==
    /\ authUser # NoUser
    /\ authUser' = NoUser
    /\ UNCHANGED <<path, acctVars, formVars, net, events, created, deleting,
                   lastConfirm, guard, lastLink, description, rendered>>

\* event.creatorID of the events the store holds after its initial fetch
creatorID(id) == IF id = "3" THEN "u1" ELSE "u2"

\* the store's collection after deleteEvent(id) resolves
deleteEvent_resolved(evs, id) == evs \ {id}

(***************************************************************************)
(* EventDetailPage                                                         *)
(***************************************************************************)
\* events.find((e) => e.id === id) for the :id of the location
eventFound ==
    IF ElementAt(path) = "EventDetailPage" /\ path[2] \in events
    THEN path[2] ELSE NULL

\* variant: the creator test must hold as well as the role test
canEditOrDelete_RoleAndCreator(u, id) ==
    u # NoUser /\ (u.role = "Faculty" /\ u.id = creatorID(id))

\* canEditOrDelete = user && (user.role === 'Faculty' || user.id === event.creatorID)
canEditOrDelete(u, id) ==
    u # NoUser /\ (u.role = "Faculty" \/ u.id = creatorID(id))

\* {canEditOrDelete && (<div> Edit, Delete </div>)} of the rendered event
ControlsRendered ==
    eventFound # NULL /\ canEditOrDelete(authUser, eventFound)

\* onClick of the Edit button
clickEdit ==
    /\ ControlsRendered
    /\ navigate(<<"events", eventFound, "edit">>, FALSE, "none")
    /\ UNCHANGED <<events, authUser, deleting, lastConfirm, guard,
                   description, rendered>>

\* variant: no confirmation is asked for
handleDelete_NoConfirm(answer) ==
    /\ ControlsRendered
    /\ Len(deleting) < MaxOutstanding
    /\ lastConfirm' = [id |-> eventFound, answer |-> answer]
    /\ deleting' = Append(deleting, eventFound)
    /\ UNCHANGED <<path, acctVars, formVars, net, events, created, authUser,
                   guard, lastLink, description, rendered>>

\* handleDelete to its await: the Delete button's onClick; confirm() blocks
\* until the user answers
handleDelete(answer) ==
    /\ ControlsRendered
    /\ Len(deleting) < MaxOutstanding
    /\ lastConfirm' = [id |-> eventFound, answer |-> answer]
    /\ IF ~answer
       THEN UNCHANGED deleting
       ELSE deleting' = Append(deleting, eventFound)
    /\ UNCHANGED <<path, acctVars, formVars, net, events, created, authUser,
                   guard, lastLink, description, rendered>>

\* handleDelete after its await: deleteEvent resolved (ok) or rejected; a
\* rejection leaves the handler at the await
handleDelete_settled(i, ok) ==
    /\ i \in 1..Len(deleting)
    /\ deleting' = [k \in 1..(Len(deleting) - 1) |->
                       IF k < i THEN deleting[k] ELSE deleting[k + 1]]
    /\ IF ok
       THEN /\ events' = deleteEvent_resolved(events, deleting[i])
            /\ navigate(LandingPath, FALSE, "none")
       ELSE UNCHANGED <<path, acctVars, formVars, net, events, created,
                        lastLink>>
    /\ UNCHANGED <<authUser, lastConfirm, guard, description, rendered>>

(***************************************************************************)
(* linkify                                                                 *)
(***************************************************************************)
p_http  == <<"h", "t", "t", "p", ":", "/", "/">>          \* 'http://'
p_https == <<"h", "t", "t", "p", "s", ":", "/", "/">>     \* 'https://'

\* number of leading characters of s that are not whitespace: [^\s]*
RECURSIVE nonSpaceRun(_)
nonSpaceRun(s) ==
    IF s = <<>> \/ Head(s) \in Whitespace THEN 0
    ELSE 1 + nonSpaceRun(Tail(s))

\* length of the match of https?:\/\/[^\s]+ at the start of s, 0 if none
urlMatchLength(s) ==
    LET scheme == IF startsWith(s, p_https) THEN Len(p_https)
                  ELSE IF startsWith(s, p_http) THEN Len(p_http)
                  ELSE 0
        run == IF scheme = 0 THEN 0
               ELSE nonSpaceRun(SubSeq(s, scheme + 1, Len(s)))
    IN  IF run = 0 THEN 0 ELSE scheme + run

\* position of the leftmost match of URL_PATTERN in s, 0 if none
firstUrl(s) ==
    IF \E k \in 1..Len(s) : urlMatchLength(SubSeq(s, k, Len(s))) > 0
    THEN CHOOSE k \in 1..Len(s) :
             /\ urlMatchLength(SubSeq(s, k, Len(s))) > 0
             /\ \A j \in 1..(k - 1) : urlMatchLength(SubSeq(s, j, Len(s))) = 0
    ELSE 0

\* text.split(URL_PATTERN): the pattern is one capturing group, so the
\* matches are kept, each between the texts around it
RECURSIVE splitUrls(_)
splitUrls(s) ==
    LET k == firstUrl(s)
        n == urlMatchLength(SubSeq(s, k, Len(s)))
    IN  IF k = 0 THEN <<s>>
        ELSE <<SubSeq(s, 1, k - 1), SubSeq(s, k, k + n - 1)>>
             \o splitUrls(SubSeq(s, k + n, Len(s)))

\* linkify: <a href={part}> for a part that starts with a scheme, the part
\* itself otherwise
linkify(text) ==
    LET parts == splitUrls(text)
    IN  [i \in 1..Len(parts) |->
            [link |-> startsWith(parts[i], p_http)
                          \/ startsWith(parts[i], p_https),
             text |-> parts[i]]]

\* words the descriptions are made of
DescriptionWords ==
    {p_http, p_https, <<"a">>, <<" ">>, <<"x", ".", "y">>}

MaxWords == 3

RECURSIVE TextsOf(_)
TextsOf(n) ==
    IF n = 0 THEN {<<>>}
    ELSE TextsOf(n - 1) \cup
         {t \o w : t \in TextsOf(n - 1), w \in DescriptionWords}

\* event descriptions the detail page can be given
Descriptions == TextsOf(MaxWords)

\* <p>{linkify(event.description)}</p> of EventDetailPage
EventDetailPage_render ==
    /\ rendered' = linkify(description)
    /\ UNCHANGED <<path, acctVars, formVars, net, events, created, authUser,
                   deleting, lastConfirm, guard, lastLink, description>>

(***************************************************************************)
(* RequireAuth                                                             *)
(***************************************************************************)
\* the 'user' item of localStorage: the session holder persists the
\* logged-in user there and clears it on logout
localStorage_getItem ==
    IF authUser = NoUser THEN NULL
    ELSE "{\"id\":\"" \o authUser.id \o "\",\"role\":\"" \o authUser.role \o "\"}"

\* variant: the children are returned whatever the storage holds
RequireAuth_AlwaysChildren(user, location) ==
    [view |-> "children", to |-> <<>>, from |-> <<>>]

\* what RequireAuth returns: !user holds for null and for the empty string
RequireAuth(user, location) ==
    IF user = NULL \/ user = ""
    THEN [view |-> "Navigate", to |-> <<"login">>, from |-> location]
    ELSE [view |-> "children", to |-> <<>>, from |-> <<>>]

\* a render of RequireAuth at the current location
RequireAuth_render ==
    /\ guard' = RequireAuth(localStorage_getItem, path)
    /\ UNCHANGED <<path, acctVars, formVars, net, events, created, authUser,
                   deleting, lastConfirm, lastLink, description, rendered>>

(***************************************************************************)
(* Specifications                                                          *)
(***************************************************************************)
\* everything but the description handed to the detail page
InitExceptDescription ==
    /\ path \in {ManagePath, CreatePath}
    /\ email = <<>> /\ password = <<>> /\ confirm = <<>>
    /\ error = NULL /\ submitting = FALSE /\ verificationSent = FALSE
    /\ sendingVerification = FALSE /\ code = <<>> /\ verifying = FALSE
    /\ emailErr = NULL /\ passwordErr = NULL /\ alerted = FALSE
    /\ fields = [f \in FieldNames |-> ""]
    /\ categories = <<>> /\ evError = NULL /\ isPrivate = FALSE
    /\ invitedUsers = <<>> /\ isPopupOpen = FALSE
    /\ lastChange = [c \in CategoryBoxes |-> "none"]
    /\ net = [c \in Controls |-> <<>>]
    /\ events = StoreAtLoad
    /\ created = {}
    /\ authUser = NoUser /\ deleting = <<>> /\ lastConfirm = NoConfirm
    /\ guard = NotRendered /\ lastLink = "none"
    /\ rendered = <<>>
    /\ registered = NoRegistration

Init == InitExceptDescription /\ description = <<>>

\* the detail page is given an event with some description
InitLinkify == InitExceptDescription /\ description \in Descriptions

\* the views: navbar, routes, session and the event detail page
NextViews ==
    \/ \E l \in NavLinks : followLink(l)
    \/ \E p \in LocationInputs : popstate(p)
    \/ Navigate_replace
    \/ \E u \in Users : login(u)
    \/ logout
    \/ clickEdit
    \/ \E answer \in BOOLEAN : handleDelete(answer)
    \/ \E i \in 1..Len(deleting) : \E ok \in BOOLEAN : handleDelete_settled(i, ok)

SpecViews == Init /\ [][NextViews]_vars

\* the detail page's description paragraph
NextLinkify == EventDetailPage_render

SpecLinkify == InitLinkify /\ [][NextLinkify]_vars

\* the route guard: the session changes, the location changes, the guard
\* renders
NextGuard ==
    \/ \E u \in Users : login(u)
    \/ logout
    \/ \E p \in LocationInputs : popstate(p)
    \/ RequireAuth_render

SpecGuard == Init /\ [][NextGuard]_vars

\* what the visitor types in the sign-up walk: two valid addresses and one
\* of a foreign domain, a valid and an invalid password, two codes
SignupEmails ==
    {w_a \o AT \o d_bears, w_a \o AT \o d_unco,
     w_a \o AT \o w_gmail \o DOT \o w_com}
SignupPasswords ==
    {<<"A","b","c","d","1","2","3","!">>, <<"a","b","c","d","1","2","3","!">>}
SignupCodes == {<<"1","2","3","4","5","6">>, <<"1","2","3","4","5">>}

\* history: the body of the registration request whose success shows the
\* code entry
recordRegistration(i, resp) ==
    registered' = IF sendVerification_throws(resp) = NULL
                  THEN net["Submit"][i] ELSE registered

\* the account creation page together with the navbar's Sign Up link
NextSignup ==
    \/ \E v \in SignupEmails : setEmail(v)
    \/ \E v \in SignupPasswords : setPassword(v)
    \/ \E v \in SignupPasswords : setConfirm(v)
    \/ onSubmit
    \/ \E i \in 1..Len(net["Submit"]) : \E r \in Responses :
           onSubmit_settled(i, r) /\ recordRegistration(i, r)
    \/ onResend
    \/ \E i \in 1..Len(net["Resend"]) : \E r \in Responses : onResend_settled(i, r)
    \/ \E v \in SignupCodes : setCode(v)
    \/ onVerify
    \/ \E i \in 1..Len(net["Verify"]) : \E r \in Responses : onVerify_settled(i, r)
    \/ followLink(SignUpLink)

SpecSignup == Init /\ [][NextSignup]_vars

\* the account creation page
NextAccount ==
    \/ \E v \in EmailInputs : setEmail(v)
    \/ \E v \in PasswordInputs : setPassword(v)
    \/ \E v \in PasswordInputs : setConfirm(v)
    \/ onSubmit
    \/ \E i \in 1..Len(net["Submit"]) : \E r \in Responses :
           onSubmit_settled(i, r) /\ UNCHANGED registered
    \/ onResend
    \/ \E i \in 1..Len(net["Resend"]) : \E r \in Responses : onResend_settled(i, r)
    \/ \E v \in CodeInputs : setCode(v)
    \/ onVerify
    \/ \E i \in 1..Len(net["Verify"]) : \E r \in Responses : onVerify_settled(i, r)

\* the event authoring page
NextEvent ==
    \/ \E f \in FieldNames : \E v \in TextInputs : setField(f, v)
    \/ \E c \in CategoryBoxes : handleCategoryChange(c)
    \/ handleTogglePrivate
    \/ openPopup
    \/ closePopup
    \/ \E u \in InviteCandidates : handleInviteUser(u)
    \/ handleSubmit
    \/ \E i \in 1..Len(net["CreateEvent"]) : \E id \in ResponseIds :
           handleSubmit_created(i, id)
    \/ \E i \in 1..Len(net["CreateEvent"]) : handleSubmit_failed(i)

SpecAccount == Init /\ [][NextAccount]_vars
SpecEvent == Init /\ [][NextEvent]_vars

\* the application: both forms, the views, the guard and the description
Next ==
    \/ NextAccount
    \/ NextEvent
    \/ NextViews
    \/ NextGuard
    \/ NextLinkify
Spec == Init /\ [][Next]_vars


(***************************************************************************)
(* Properties                                                              *)
(***************************************************************************)
\* text after the first "@" of s (s holds one)
AfterAt(s) ==
    LET k == CHOOSE i \in 1..Len(s) : s[i] = "@" /\ \A j \in 1..(i - 1) : s[j] # "@"
    IN  SubSeq(s, k + 1, Len(s))

\* text before the first "@" of s (s holds one)
BeforeAt(s) ==
    LET k == CHOOSE i \in 1..Len(s) : s[i] = "@" /\ \A j \in 1..(i - 1) : s[j] # "@"
    IN  SubSeq(s, 1, k - 1)

\* a and b are the same text up to letter case
SameIgnoringCase(a, b) ==
    Len(a) = Len(b) /\ \A i \in 1..Len(a) : LowerChar(a[i]) = LowerChar(b[i])

Alphanumeric == UpperChars \cup LowerChars \cup DigitChars

\* the submission conditions as the account form's contract states them
SubmissionAllowed(e, p, c) ==
    /\ EmailRegexTest(trim(e))
    /\ \/ SameIgnoringCase(AfterAt(trim(e)), d_bears)
       \/ SameIgnoringCase(AfterAt(trim(e)), d_unco)
    /\ Len(p) >= 8
    /\ \E i \in 1..Len(p) : p[i] \in UpperChars
    /\ \E i \in 1..Len(p) : p[i] \in LowerChars
    /\ \E i \in 1..Len(p) : p[i] \in DigitChars
    /\ \E i \in 1..Len(p) : p[i] \notin Alphanumeric
    /\ c = p

\* C1: Submit issues POST /register exactly when the trimmed email matches
\* the pattern, its domain is an allowed one (case-insensitively), the
\* password meets all five rules and the confirmation equals it; otherwise
\* no request is issued and an error is shown.  validate() decides this the
\* same way for every text the three inputs can hold.
C1_SubmitRegistersIffValid ==
    /\ [](validate(email, password, confirm).err = NULL
            <=> SubmissionAllowed(email, password, confirm))
    /\ [][ /\ Len(net'["Submit"]) > Len(net["Submit"])
              => /\ SubmissionAllowed(email, password, confirm)
                 /\ net["Submit"] = <<>>
                 /\ net'["Submit"][1].email = trim(email)
                 /\ net'["Submit"][1].password = password
           /\ onSubmit /\ SubmissionAllowed(email, password, confirm)
              => Len(net'["Submit"]) = Len(net["Submit"]) + 1
           /\ onSubmit /\ ~SubmissionAllowed(email, password, confirm)
              => net' = net /\ error' # NULL /\ ~verificationSent'
         ]_vars

\* a valid submission with an upper-case domain is in flight
C1_Witness ==
    /\ submitting
    /\ Len(net["Submit"]) = 1
    /\ net["Submit"][1].email = w_a \o AT \o w_UNCO \o DOT \o w_EDU

RegisterRequests ==
    {net["Submit"][i] : i \in 1..Len(net["Submit"])}
        \cup {net["Resend"][i] : i \in 1..Len(net["Resend"])}

\* C2: the accountType of every /register request follows from the email's
\* domain alone ('Student' for bears.unco.edu, 'Faculty' for unco.edu), and
\* the accountID is the text before the '@'.
C2_AccountTypeByDomain ==
    \A r \in RegisterRequests :
        /\ SameIgnoringCase(AfterAt(r.email), d_bears) => r.accountType = "Student"
        /\ SameIgnoringCase(AfterAt(r.email), d_unco) => r.accountType = "Faculty"
        /\ r.accountID = BeforeAt(r.email)

\* C3: a failed registration from Submit leaves verificationSent false,
\* submitting false and an error set; a failed verification leaves
\* verificationSent true, verifying false and an error set; verificationSent
\* turns true only in the step that settles a successful registration.
C3_FailureReturnsToPriorState ==
    [][ /\ \A i \in 1..Len(net["Submit"]) : \A r \in Responses :
               onSubmit_settled(i, r) /\ r.kind # "ok"
                   => ~verificationSent' /\ ~submitting' /\ error' # NULL
        /\ \A i \in 1..Len(net["Verify"]) : \A r \in Responses :
               onVerify_settled(i, r) /\ r.kind # "ok"
                   => verificationSent' /\ ~verifying' /\ error' # NULL
        /\ ~verificationSent /\ verificationSent'
               => \E i \in 1..Len(net["Submit"]) : \E r \in Responses :
                      r.kind = "ok" /\ onSubmit_settled(i, r)
      ]_vars

\* a registration has failed back to the credentials form
C3_Witness ==
    /\ error = "Could not send verification email."
    /\ ~verificationSent /\ ~submitting /\ net["Submit"] = <<>>

\* the body carries a detail that is a non-empty string
CarriesDetail(r) == r.parses /\ r.detail.t = "string" /\ r.detail.s # ""
\* the body carries no detail at all
CarriesNoDetail(r) == ~r.parses \/ r.detail.t = "undefined"

C5_OneRequestPerControl == \A c \in Controls : Len(net[c]) <= 1

\* the authoring form's submission conditions as its contract states them
EventSubmissionAllowed ==
    /\ \A f \in FieldNames : fields[f] # ""
    /\ categories # <<>>
    /\ isPrivate => invitedUsers # <<>>

ValidationMessages ==
    { "Please fill out all required fields, including at least one Category.",
      "A private event must have at least one invited user." }

\* C6: POST /events is issued only when title, description, date and
\* location are non-empty, a category is selected and a private event has
\* an invitee; a submission failing any of these issues no request, does
\* not navigate and sets a validation message.
C6_PostOnlyWhenValid ==
    [][ /\ Len(net'["CreateEvent"]) > Len(net["CreateEvent"])
           => EventSubmissionAllowed
        /\ handleSubmit /\ ~EventSubmissionAllowed
           => net' = net /\ path' = path /\ evError' \in ValidationMessages
        /\ handleSubmit /\ EventSubmissionAllowed
           => Len(net'["CreateEvent"]) = Len(net["CreateEvent"]) + 1
      ]_vars

\* a private event without invitees was refused, nothing sent
C6_Witness ==
    /\ evError = "A private event must have at least one invited user."
    /\ isPrivate /\ invitedUsers = <<>> /\ net["CreateEvent"] = <<>>
    /\ path = CreatePath

\* C7: whenever isPrivate is false the invitee list is empty.
C7_PublicEventHasNoInvitees == ~isPrivate => invitedUsers = <<>>

NoDuplicates(s) == \A i \in 1..Len(s) : \A j \in 1..Len(s) : s[i] = s[j] => i = j

\* C8: the categories list has no duplicate and, as a set, is the set of
\* categories whose last change event was 'checked'.
C8_CategoriesAreTheCheckedBoxes ==
    /\ NoDuplicates(categories)
    /\ Range(categories) = {c \in CategoryBoxes : lastChange[c] = "checked"}

\* one box was checked and unchecked again, the other is checked
C8_Witness ==
    /\ lastChange["Music"] = "unchecked"
    /\ lastChange["Tech"] = "checked"
    /\ categories = <<"Tech">>

InvitedIds == {invitedUsers[i].id : i \in 1..Len(invitedUsers)}

\* C9: the invitee list never holds two users with the same id; selecting a
\* user whose id is in the list leaves it unchanged, selecting a new user
\* appends exactly that user.
C9_InviteesUniqueById ==
    /\ [](\A i \in 1..Len(invitedUsers) : \A j \in 1..Len(invitedUsers) :
              invitedUsers[i].id = invitedUsers[j].id => i = j)
    /\ [][ \A u \in InviteCandidates : handleInviteUser(u) =>
              IF u.id \in InvitedIds
              THEN invitedUsers' = invitedUsers
              ELSE invitedUsers' = Append(invitedUsers, u)
         ]_vars

\* two users are invited; a third candidate shares the first one's id
C9_Witness ==
    /\ isPopupOpen
    /\ invitedUsers = << [id |-> "u1", name |-> "Ann"],
                         [id |-> "u2", name |-> "Bob"] >>

\* C10: when the view is on /events/<id>, the events store holds <id>.
C10_CreatedEventIsInStore ==
    (Len(path) = 2 /\ path[1] = "events") => path[2] \in events


\* ---------------------------------------------------------------------
\* C11: after a successful POST /events the form navigates exactly once:
\* to /events/<id> whenever the response carries an identifier, whatever
\* its value, and to the landing route only when it carries none.
C11_NavigatesToDetailForEveryId ==
    [][\A i \in 1..Len(net["CreateEvent"]) : \A id \in ResponseIds :
          handleSubmit_created(i, id) =>
              path' = IF id = "undefined" THEN LandingPath ELSE EventPath(id)]_vars

\* ---------------------------------------------------------------------
\* the viewer is logged in and is Faculty or the creator of the event shown
ViewerIsPrivileged ==
    /\ authUser \in Users
    /\ \/ authUser.role = "Faculty"
       \/ authUser.id = creatorID(eventFound)

\* C12: on the event detail view the Edit and Delete controls are shown
\* exactly when the viewer is logged in and is Faculty or the event's
\* creator, and every deleteEvent call this view makes is made for the
\* event shown to such a viewer.
C12_ControlsIffPrivileged ==
    [][/\ eventFound # NULL => (ControlsRendered <=> ViewerIsPrivileged)
       /\ Len(deleting') > Len(deleting) =>
              /\ eventFound # NULL /\ ViewerIsPrivileged
              /\ deleting'[Len(deleting')] = eventFound]_vars

\* a Student who created the event shown has had its deletion requested,
\* and the event is still displayed
C12_Witness ==
    /\ eventFound # NULL /\ ControlsRendered
    /\ authUser.role = "Student"
    /\ \E i \in 1..Len(deleting) : deleting[i] = eventFound

C13_WitnessDeclined ==
    /\ lastConfirm # NoConfirm /\ ~lastConfirm.answer
    /\ deleting = <<>> /\ events = StoreAtLoad

\* ---------------------------------------------------------------------
\* the texts of the fragments, joined in order
RECURSIVE JoinFragments(_)
JoinFragments(frags) ==
    IF frags = <<>> THEN <<>>
    ELSE Head(frags).text \o JoinFragments(Tail(frags))

\* t is a bare URL: a scheme followed by one or more characters, none of
\* them whitespace
IsBareUrl(t) ==
    \E scheme \in {p_http, p_https} :
        /\ startsWith(t, scheme)
        /\ Len(t) > Len(scheme)
        /\ \A k \in (Len(scheme) + 1)..Len(t) : t[k] \notin Whitespace

\* C14: the fragments linkify returns concatenate to the original text,
\* and a fragment is a link exactly when it is a bare URL matched by the
\* pattern; text that only begins with 'http://' or 'https://' stays plain.
C14_LinkIffBareUrl ==
    rendered # <<>> =>
        /\ JoinFragments(rendered) = description
        /\ \A i \in 1..Len(rendered) :
               rendered[i].link <=> IsBareUrl(rendered[i].text)

\* the part of C14 that holds: the fragments concatenate to the text, every
\* bare URL is a link, and every link begins with a scheme
C14_FragmentsConcatenate ==
    rendered # <<>> =>
        /\ JoinFragments(rendered) = description
        /\ \A i \in 1..Len(rendered) :
               IsBareUrl(rendered[i].text) => rendered[i].link

\* ---------------------------------------------------------------------
\* C15: RequireAuth returns its protected page only when a user identity
\* is in client storage at the time it renders; otherwise it returns no
\* part of the page but a redirect to /login whose state carries the
\* location that was asked for as 'from'.
C15_GuardRendersPageOnlyWithIdentity ==
    [][RequireAuth_render =>
           IF authUser \in Users
           THEN guard'.view = "children"
           ELSE /\ guard'.view = "Navigate"
                /\ guard'.to = <<"login">>
                /\ guard'.from = path]_vars

\* the guard redirected a visitor who asked for /profile, and a user has
\* logged in since
C15_Witness ==
    /\ guard.view = "Navigate" /\ guard.from = <<"profile">>
    /\ authUser \in Users

\* ---------------------------------------------------------------------
\* the page the route table names for a location, "Navigate" (the redirect
\* to the landing route) for a location it does not name
TablePage(p) ==
    CASE p = <<>>             -> "DefaultPage"
      [] p = <<"home">>       -> "HomePage"
      [] p = <<"create">>     -> "CreateEventPage"
      [] p = <<"manage">>     -> "CreateAccountPage"
      [] p = <<"help">>       -> "Help"
      [] p = <<"calendar">>   -> "CalendarPage"
      [] p = <<"profile">>    -> "MyProfile"
      [] p = <<"login">>      -> "SignInPage"
      [] Len(p) = 2 /\ p[1] = "events" -> "EventDetailPage"
      [] Len(p) = 3 /\ p[1] = "events" /\ p[3] = "edit" -> "EditEventPage"
      [] OTHER                -> "Navigate"

\* C16: every path of the route table resolves to its own page, /login
\* too although it is declared after the wildcard route, and every other
\* path is redirected to the landing route.
C16_EveryPathResolvesToItsPage ==
    [][/\ ElementAt(path) = TablePage(path)
       /\ ElementAt(path') = TablePage(path')
       /\ TablePage(path) = "Navigate" /\ Navigate_replace =>
              path' = LandingPath /\ TablePage(path') = "DefaultPage"]_vars

\* the location is /login and the sign-in page is rendered
C16_Witness ==
    path = <<"login">> /\ ElementAt(path) = "SignInPage"

\* ---------------------------------------------------------------------
\* no redirect is pending at the current location
RoutingSettled == ElementAt(path) # "Navigate"

\* C17: after a navbar link (Events, Calendar, Sign Up, Create, Help,
\* Profile) is followed and routing has settled, the location is the
\* link's target, the page is the one the route table names for it, and
\* the link is the highlighted one.
C17_LinkLeadsToItsHighlightedPage ==
    \A l \in NavLinks :
        l.name # "Logo" /\ lastLink = l.name /\ RoutingSettled =>
            /\ path = l.to
            /\ ElementAt(path) = TablePage(l.to)
            /\ Highlighted(l, path)

\* ---------------------------------------------------------------------
\* C18: while the code is awaited, every request refers to the registered
\* account, whatever the order of Verify, Resend and navigation (the
\* navbar's Sign Up link included): the accountID sent to /verify and the
\* email and password Resend sends are those of the registration that
\* opened the code entry, so every /register request carries an email and
\* a password that passed validation.
C18_RequestsReferToRegisteredAccount ==
    /\ verificationSent =>
           /\ \A i \in 1..Len(net["Resend"]) :
                  /\ net["Resend"][i].email = registered.email
                  /\ net["Resend"][i].password = registered.password
           /\ \A i \in 1..Len(net["Verify"]) :
                  net["Verify"][i].accountID = registered.accountID
    /\ \A r \in RegisterRequests :
           SubmissionAllowed(r.email, r.password, r.password)
=============================================================================
